---- MODULE Spec2Model ----
(***************************************************************************)
(* A model of run.py, the recreation.gov campsite checker: the monthly     *)
(* availability fetch, the aggregation of the payloads per campsite, the   *)
(* detection of runs of consecutive available nights, the merge of date    *)
(* ranges, and the snapshot store (campsites.json) of main.                *)
(*                                                                         *)
(* Dates are proleptic ordinals (datetime.toordinal): ordinal 1 is Monday  *)
(* 0001-01-01, ordinals 1..31 are January of year 1, 32..59 February.      *)
(* A date string is a record of the format it was written in and the day   *)
(* it denotes.                                                             *)
(***************************************************************************)
EXTENDS Integers, Sequences, FiniteSets, TLC

VARIABLES
    args,              \* the parsed command line (module-level args) and the exclusion file
    remote,            \* what the availability API holds: first of month -> payload
    pc,                \* position of main
    api_data,          \* the payloads fetched so far (get_park_information)
    park_information,  \* the aggregated map: campsite id -> list of date strings
    info_by_park_id,   \* park id -> (current, maximum, ranges by site, park name)
    dates,             \* the list of range dicts handed to merge_consecutive_dates
    merged,            \* the list merge_consecutive_dates returned
    store,             \* the content of campsites.json
    report,            \* what the run did to the store and the notification channel
    run                \* number of the current run of main

vars == <<args, remote, pc, api_data, park_information, info_by_park_id,
          dates, merged, store, report, run>>

----------------------------------------------------------------------------
(* Bounds of the model.                                                    *)

\* number of calendar days the model ranges over, from 0001-01-31 on
WindowDays == 5
\* longest list of dates one monthly payload holds for one campsite
MaxDates == 2
\* largest stay length asked for on the command line
MaxNights == 3
\* days of February that the payloads of the aggregation scenarios list, and
\* days after the 1st of February that the payloads of the report scenarios list
AggFebDays == 1
\* longest list of ranges handed to merge_consecutive_dates on its own
MaxRanges == 3
\* number of runs of main in a row
MaxRuns == 2

\* the days of the model: 0001-01-31 (a Wednesday) and the days after it
LastDay == 30 + WindowDays
FirstDay == LastDay - WindowDays + 1
Days == FirstDay..LastDay

----------------------------------------------------------------------------
(* Calendar and date strings.                                              *)

\* datetime.weekday(): Monday is 0
weekday(ord) == (ord - 1) % 7

is_weekend(ord) == weekday(ord) = 4 \/ weekday(ord) = 5

\* the first of the month of a day of year 1 (January to March)
start_of_month(ord) == IF ord <= 31 THEN 1 ELSE IF ord <= 59 THEN 32 ELSE 60

FirstOfMonths == <<1, 32, 60>>

\* rrule(MONTHLY, dtstart=start_of_month, until=end_date)
months(start_date, end_date) ==
    SelectSeq(FirstOfMonths,
              LAMBDA m : m >= start_of_month(start_date) /\ m <= end_date)

ISO_DATE_FORMAT_RESPONSE == "%Y-%m-%dT00:00:00Z"
INPUT_DATE_FORMAT == "%Y-%m-%d"

\* formatter.format_date(date, format_string): the text of a day in a format
format_date(ord, format_string) == [fmt |-> format_string, ord |-> ord]

\* datetime.strptime(text, format).toordinal(); a text in another format
\* does not parse (ValueError), which no call of the program meets
strptime(text, format_string) ==
    IF text.fmt = format_string THEN text.ord ELSE -1

\* int(campsite_id) of the campsite ids of the model
SiteKeys == {"100", "200"}
int(site) == IF site = "100" THEN 100 ELSE 200

----------------------------------------------------------------------------
(* get_park_information: the aggregation of the monthly payloads.          *)

\* the dates of one campsite of one payload that pass the three filters
\* (lines 84-102), in the payload's order
QualifyingDates(campsite_data, campsite_type, campsite_ids) ==
    LET avail == campsite_data.availabilities
        keep == SelectSeq(avail,
                    LAMBDA e :
                        /\ e.status = "Available"
                        /\ ~ (campsite_type # <<>>
                              /\ campsite_type[1] # campsite_data.campsite_type)
                        /\ ~ (Cardinality(campsite_ids) > 0
                              /\ campsite_data.campsite_id \notin campsite_ids))
    IN  [i \in 1..Len(keep) |-> keep[i].date]

\* CollapseMonth without the check of the exclusion list (lines 80-81)
CollapseMonth_NoExclusion(data, month_data, campsite_type, campsite_ids, excluded_site_ids) ==
    LET seen == DOMAIN month_data
        old(s) == IF s \in DOMAIN data THEN data[s] ELSE <<>>
    IN  [s \in (DOMAIN data) \cup seen |->
            IF s \in seen
            THEN old(s) \o QualifyingDates(month_data[s], campsite_type, campsite_ids)
            ELSE data[s]]

\* one pass of the loop over api_data (lines 78-104): data after month_data
CollapseMonth(data, month_data, campsite_type, campsite_ids, excluded_site_ids) ==
    LET seen == {s \in DOMAIN month_data : s \notin excluded_site_ids}
        old(s) == IF s \in DOMAIN data THEN data[s] ELSE <<>>
    IN  [s \in (DOMAIN data) \cup seen |->
            IF s \in seen
            THEN old(s) \o QualifyingDates(month_data[s], campsite_type, campsite_ids)
            ELSE data[s]]

RECURSIVE CollapseFrom(_, _, _, _, _)
CollapseFrom(data, api, campsite_type, campsite_ids, excluded_site_ids) ==
    IF api = <<>> THEN data
    ELSE CollapseFrom(
            CollapseMonth(data, Head(api), campsite_type, campsite_ids,
                          excluded_site_ids),
            Tail(api), campsite_type, campsite_ids, excluded_site_ids)

\* lines 76-106
Collapse(api, campsite_type, campsite_ids, excluded_site_ids) ==
    CollapseFrom(<<>>, api, campsite_type, campsite_ids, excluded_site_ids)

----------------------------------------------------------------------------
(* consecutive_nights and get_num_available_sites.                         *)

\* length of the first group of groupby(ordinal_dates, x - next(c)): the
\* longest prefix in which each entry is the previous one plus one
FirstGroupLen(ords) ==
    CHOOSE k \in 1..Len(ords) :
        /\ \A i \in 1..(k - 1) : ords[i + 1] = ords[i] + 1
        /\ k < Len(ords) => ords[k + 1] # ords[k] + 1

\* lines 179-183
RECURSIVE consecutive_ranges(_)
consecutive_ranges(ords) ==
    IF ords = <<>> THEN <<>>
    ELSE LET k == FirstGroupLen(ords)
         IN  <<SubSeq(ords, 1, k)>> \o consecutive_ranges(SubSeq(ords, k + 1, Len(ords)))

\* the checkout day of the stay of `nights` that starts at r[start_index]
\* (line 196)
end_ordinal(r, start_index, nights) == r[start_index + nights - 1] + 1

\* lines 188-199 for one group r (start_index counted from 1)
RangesOfGroup(r, nights) ==
    IF Len(r) < nights THEN <<>>
    ELSE [start_index \in 1..(Len(r) - nights + 1) |->
            <<format_date(r[start_index], INPUT_DATE_FORMAT),
              format_date(end_ordinal(r, start_index, nights), INPUT_DATE_FORMAT)>>]

RECURSIVE LongEnough(_, _)
LongEnough(groups, nights) ==
    IF groups = <<>> THEN <<>>
    ELSE RangesOfGroup(Head(groups), nights) \o LongEnough(Tail(groups), nights)

\* lines 165-201
consecutive_nights(available, nights) ==
    LET ordinal_dates ==
            [i \in 1..Len(available) |->
                strptime(available[i], ISO_DATE_FORMAT_RESPONSE)]
    IN  LongEnough(consecutive_ranges(ordinal_dates), nights)

\* WindowDates with the window shifted by one day: range(0, num_days), which
\* takes end_date in and leaves start_date out
WindowDates_IncludesEndDate(start_date, end_date, weekends_only) ==
    LET num_days == end_date - start_date
        all == {end_date - i : i \in 0..(num_days - 1)}
        kept == IF weekends_only THEN {d \in all : is_weekend(d)} ELSE all
    IN  {format_date(d, ISO_DATE_FORMAT_RESPONSE) : d \in kept}

\* lines 120-129: the date strings of the window, weekend nights only if asked
WindowDates(start_date, end_date, weekends_only) ==
    LET num_days == end_date - start_date
        all == {end_date - i : i \in 1..num_days}
        kept == IF weekends_only THEN {d \in all : is_weekend(d)} ELSE all
    IN  {format_date(d, ISO_DATE_FORMAT_RESPONSE) : d \in kept}

\* EffectiveNights falling back to one night instead of the whole window
EffectiveNights_FallsBackToOne(nights, num_days) ==
    IF nights = <<>> \/ ~ (nights[1] \in 1..num_days) THEN 1 ELSE nights[1]

\* lines 131-132; nights is <<>> when unset, <<n>> when set
EffectiveNights(nights, num_days) ==
    IF nights = <<>> \/ ~ (nights[1] \in 1..num_days) THEN num_days ELSE nights[1]

\* lines 140-143
desired_available(availabilities, window) ==
    SelectSeq(availabilities, LAMBDA d : d \in window)

\* lines 145-160 for one site: the range dicts appended for it
SiteRanges(availabilities, window, nights) ==
    LET desired == desired_available(availabilities, window)
        found == IF desired = <<>> THEN <<>> ELSE consecutive_nights(desired, nights)
    IN  [i \in 1..Len(found) |-> [start |-> found[i][1], end |-> found[i][2]]]

\* lines 114-162
get_num_available_sites(information, start_date, end_date, nights, weekends_only) ==
    LET window == WindowDates(start_date, end_date, weekends_only)
        n == EffectiveNights(nights, end_date - start_date)
        has == {s \in DOMAIN information : SiteRanges(information[s], window, n) # <<>>}
    IN  [current |-> Cardinality(has),
         maximum |-> Cardinality(DOMAIN information),
         sites |-> [i \in {int(s) : s \in has} |->
                      SiteRanges(information[CHOOSE s \in has : int(s) = i], window, n)]]

----------------------------------------------------------------------------
(* merge_consecutive_dates. The range dicts of the list are objects: the   *)
(* list that sorted() returns and the list `merged` hold the same dicts as *)
(* the list given, so an assignment to last["end"] changes the given list. *)
(* A dict is named by its index in the given list.                         *)

\* line 236: the indices of the given list as sorted() orders them, by start
\* day, dicts of equal start in their given order (the sort is stable)
sorted_dates(given) ==
    LET start(i) == strptime(given[i].start, INPUT_DATE_FORMAT)
        rank(i) == 1 + Cardinality({j \in 1..Len(given) :
                        \/ start(j) < start(i)
                        \/ start(j) = start(i) /\ j < i})
    IN  [k \in 1..Len(given) |-> CHOOSE i \in 1..Len(given) : rank(i) = k]

\* the test of line 245 with the gap of one day left out
consecutive_or_overlapping_NoGap(current_start, last_end) ==
    current_start <= last_end

\* line 245
consecutive_or_overlapping(current_start, last_end) ==
    current_start <= last_end + 1

\* the assignment of line 246 taking the end of the current range always
later_end_TakesCurrent(last_end_text, current_end_text) == current_end_text

\* line 246: max(last["end"], current["end"], key=strptime), the first of
\* the two when they denote the same day
later_end(last_end_text, current_end_text) ==
    IF strptime(current_end_text, INPUT_DATE_FORMAT)
            > strptime(last_end_text, INPUT_DATE_FORMAT)
    THEN current_end_text ELSE last_end_text

\* lines 239-248 from the k-th dict of the sorted list on; st.merged holds
\* the indices of the dicts of `merged`, st.end the "end" of every dict
RECURSIVE MergeLoop(_, _, _, _)
MergeLoop(given, order, k, st) ==
    IF k > Len(order) THEN st
    ELSE LET current == order[k]
             last == st.merged[Len(st.merged)]
             last_end == strptime(st.end[last], INPUT_DATE_FORMAT)
             current_start == strptime(given[current].start, INPUT_DATE_FORMAT)
         IN  MergeLoop(given, order, k + 1,
                IF consecutive_or_overlapping(current_start, last_end)
                THEN [st EXCEPT !.end[last] = later_end(st.end[last], st.end[current])]
                ELSE [st EXCEPT !.merged = Append(st.merged, current)])

\* lines 232-248
MergeState(given) ==
    IF given = <<>> THEN [merged |-> <<>>, end |-> <<>>]
    ELSE MergeLoop(given, sorted_dates(given), 2,
                   [merged |-> <<sorted_dates(given)[1]>>,
                    end |-> [i \in 1..Len(given) |-> given[i].end]])

\* lines 222-250: the list returned
merge_consecutive_dates(given) ==
    LET st == MergeState(given)
    IN  [k \in 1..Len(st.merged) |->
            [start |-> given[st.merged[k]].start, end |-> st.end[st.merged[k]]]]

\* line 246: the given list after the call
dates_after_merge(given) ==
    LET st == MergeState(given)
    IN  [i \in 1..Len(given) |-> [start |-> given[i].start, end |-> st.end[i]]]

----------------------------------------------------------------------------
(* The reports and the snapshot store of main. A JSON document is modelled *)
(* by the value it decodes to; its whitespace and key order are not kept.  *)

None == [type |-> "None"]
Object(members) == [type |-> "object", members |-> members]
String(chars) == [type |-> "string", chars |-> chars]

\* == of two decoded values
PyEq(a, b) == a.type = b.type /\ a = b

\* json.dumps: the keys of a dict become strings
str(i) == IF i = 100 THEN "100" ELSE "200"

json_dumps(value) == [json |-> value]
json_loads(text) == text.json

Absent == [kind |-> "absent"]
Malformed == [kind |-> "malformed"]
File(text) == [kind |-> "file", text |-> text]

\* lines 460-465: json.load of the file, None on JSONDecodeError
json_load(file) == IF file.kind = "malformed" THEN None ELSE json_loads(file.text)

\* RecreationClient.get_park_name
get_park_name(park_id) == "campground"

\* generate_json_output without the test of line 314: every park gets a key
generate_json_output_EveryPark(info) ==
    [output |-> json_dumps(Object(
                    [p \in DOMAIN info |->
                        [name |-> info[p].name,
                         sites |-> [k \in {str(i) : i \in DOMAIN info[p].sites} |->
                                      info[p].sites[CHOOSE i \in DOMAIN info[p].sites :
                                                        str(i) = k]]]])),
     has_availabilities |-> \E p \in DOMAIN info : info[p].current > 0]

\* lines 309-321: the document has the parks with an available site, the
\* campsite ids as strings
generate_json_output(info) ==
    LET avail == {p \in DOMAIN info : info[p].current > 0}
    IN  [output |-> json_dumps(Object(
                        [p \in avail |->
                            [name |-> info[p].name,
                             sites |-> [k \in {str(i) : i \in DOMAIN info[p].sites} |->
                                          info[p].sites[CHOOSE i \in DOMAIN info[p].sites :
                                                            str(i) = k]]]])),
         has_availabilities |-> avail # {}]

\* lines 257-262, 296-306: the flag of generate_human_output
has_availabilities(info) == \E p \in DOMAIN info : info[p].current > 0

\* the order in which a dict yields its keys: the parks in the order of
\* args.parks, the campsites of a park in the order of the API payload
ParkIds == <<"A", "B">>
SiteIds == <<100, 200>>
items(ids, dict) == SelectSeq(ids, LAMBDA k : k \in DOMAIN dict)

\* a line of the report: the format string and the values of its fields
Line(format, fields) == [format |-> format, fields |-> fields]

RECURSIVE Flatten(_)
Flatten(seqs) == IF seqs = <<>> THEN <<>> ELSE Head(seqs) \o Flatten(Tail(seqs))

\* Emoji.SUCCESS.value or Emoji.FAILURE.value, lines 260-264
emoji(current) == IF current # 0 THEN "SUCCESS" ELSE "FAILURE"

\* lines 278-294: the lines of one campsite
site_lines(site_id, site_dates) ==
    <<Line("  * Site {site_id} is available on the following dates:",
           [site_id |-> site_id]),
      Line("    https://www.recreation.gov/camping/campsites/{site_id}",
           [site_id |-> site_id])>>
    \o [i \in 1..Len(site_dates) |->
            Line("    * {start} -> {end}",
                 [start |-> site_dates[i].start, end |-> site_dates[i].end])]

\* lines 258-294: the lines of one park
park_lines(park_id, info, gen_campsite_info) ==
    LET ids == items(SiteIds, info.sites)
    IN  <<Line("{emoji} {park_name} ({park_id}): {current} site(s) available out of {maximum} site(s)",
               [emoji |-> emoji(info.current), park_name |-> info.name,
                park_id |-> park_id, current |-> info.current,
                maximum |-> info.maximum])>>
        \o (IF gen_campsite_info /\ DOMAIN info.sites # {}
            THEN Flatten([i \in 1..Len(ids) |-> site_lines(ids[i], info.sites[ids[i]])])
            ELSE <<>>)

\* lines 296-305: the line inserted at the head of the report
headline(flag, start_date, end_date) ==
    IF flag
    THEN Line("there are campsites available from {start} to {end}!!!",
              [start |-> format_date(start_date, INPUT_DATE_FORMAT),
               end |-> format_date(end_date, INPUT_DATE_FORMAT)])
    ELSE Line("There are no campsites available :(", <<>>)

\* lines 253-306: the report as the list of its lines, and the flag
generate_human_output(info, start_date, end_date, gen_campsite_info) ==
    LET parks == items(ParkIds, info)
        out == Flatten([i \in 1..Len(parks) |->
                            park_lines(parks[i], info[parks[i]], gen_campsite_info)])
    IN  [msg |-> <<headline(has_availabilities(info), start_date, end_date)>> \o out,
         has_availabilities |-> has_availabilities(info)]

----------------------------------------------------------------------------
(* What the availability API may hold.                                     *)

DaysOfMonth(m, days) == {d \in days : start_of_month(d) = m}

\* the lists of at most maxLen (date, status) entries, no date twice (the
\* "availabilities" object of a payload is keyed by date), in any order
AvailSeqs(days, statuses, maxLen) ==
    LET entries == {[date |-> format_date(d, ISO_DATE_FORMAT_RESPONSE), status |-> st] :
                        d \in days, st \in statuses}
    IN  UNION {{a \in [1..n -> entries] :
                    \A i, j \in 1..n : i # j => a[i].date # a[j].date} :
               n \in 0..maxLen}

\* the payloads of month m that list every site of typesOf with one of its types
Payloads(m, typesOf, days, statuses, maxLen) ==
    LET avail == AvailSeqs(DaysOfMonth(m, days), statuses, maxLen)
        all == {[campsite_id |-> int(s), campsite_type |-> t, availabilities |-> a] :
                    s \in DOMAIN typesOf, t \in UNION {typesOf[x] : x \in DOMAIN typesOf},
                    a \in avail}
    IN  {p \in [DOMAIN typesOf -> all] :
            \A s \in DOMAIN typesOf :
                p[s].campsite_id = int(s) /\ p[s].campsite_type \in typesOf[s]}

Remotes(typesOf, days, statuses, maxLen) ==
    {[m \in {1, 32} |-> IF m = 1 THEN january ELSE february] :
        january \in Payloads(1, typesOf, days, statuses, maxLen),
        february \in Payloads(32, typesOf, days, statuses, maxLen)}

----------------------------------------------------------------------------
(* The state machine.                                                      *)

\* nothing done yet by a run: store not written, no message sent; prior is
\* the kind of store the run found, snapshot the document it computed,
\* previous the one the run before it computed
NoReport == [wrote |-> FALSE, sent |-> "no", prior |-> "none",
             snapshot |-> None, previous |-> None]

\* a run of main begins: nothing fetched, nothing computed
Fresh ==
    /\ pc = "fetch"
    /\ api_data = <<>>
    /\ park_information = <<>>
    /\ info_by_park_id = <<>>
    /\ dates = <<>>
    /\ merged = <<>>
    /\ report = NoReport

\* the detector scenarios: one campsite, any window, stay length and weekend
\* flag, no filter; the payloads list its available days in any order
InitDet ==
    /\ args \in [start_date : Days, end_date : Days,
                  nights : {<<>>} \cup {<<n>> : n \in 0..MaxNights},
                  weekends_only : BOOLEAN,
                  campsite_type : {<<>>}, campsite_ids : {{}},
                  excluded_site_ids : {{}}, chat : {FALSE}, creds : {FALSE}]
    /\ remote \in Remotes([s \in {"100"} |-> {"STANDARD"}], Days, {"Available"}, MaxDates)
    /\ store = Absent
    /\ run = 1
    /\ Fresh

\* the aggregation scenarios: two campsites, every filter set or unset, the
\* whole window, dates available or reserved
InitAgg ==
    /\ args \in [start_date : {FirstDay}, end_date : {LastDay},
                  nights : {<<1>>}, weekends_only : {FALSE},
                  campsite_type : {<<>>, <<"TENT">>},
                  campsite_ids : {{}, {100}},
                  excluded_site_ids : {{}, {"100"}},
                  chat : {FALSE}, creds : {FALSE}]
    /\ remote \in Remotes([s \in SiteKeys |->
                                IF s = "100" THEN {"TENT", "STANDARD"} ELSE {"STANDARD"}],
                           FirstDay..(31 + AggFebDays),
                           {"Available", "Reserved"}, MaxDates)
    /\ store = Absent
    /\ run = 1
    /\ Fresh

\* lines 64-72: one call of RecreationClient.get_availability, for the next
\* month of the window
get_availability ==
    /\ pc = "fetch"
    /\ Len(api_data) < Len(months(args.start_date, args.end_date))
    /\ api_data' = Append(api_data,
                          remote[months(args.start_date, args.end_date)[Len(api_data) + 1]])
    /\ UNCHANGED <<args, remote, pc, park_information, info_by_park_id,
                   dates, merged, store, report, run>>

\* lines 76-106: every month is fetched; collapse the payloads
get_park_information ==
    /\ pc = "fetch"
    /\ Len(api_data) = Len(months(args.start_date, args.end_date))
    /\ park_information' = Collapse(api_data, args.campsite_type, args.campsite_ids,
                                    args.excluded_site_ids)
    /\ pc' = "count"
    /\ UNCHANGED <<args, remote, api_data, info_by_park_id,
                   dates, merged, store, report, run>>

\* lines 215-219 of check_park, and line 439: the park's entry of info_by_park_id
check_park ==
    /\ pc = "count"
    /\ info_by_park_id' =
            [p \in {"A"} |->
                [name |-> get_park_name(p)] @@
                get_num_available_sites(park_information, args.start_date,
                                        args.end_date, args.nights, args.weekends_only)]
    /\ pc' = "checked"
    /\ UNCHANGED <<args, remote, api_data, park_information,
                   dates, merged, store, report, run>>

NextPark == get_availability \/ get_park_information \/ check_park

SpecDet == InitDet /\ [][NextPark]_vars
SpecAgg == InitAgg /\ [][NextPark]_vars

----------------------------------------------------------------------------
(* main after the parks are checked: the snapshot store, the notification  *)
(* and the booking step.                                                   *)

\* lines 450-476 and 484-489: compare the new document with campsites.json
\* and write the file
compare_snapshot ==
    /\ pc = "checked"
    /\ LET output == generate_json_output(info_by_park_id).output
           exists == store.kind # "absent"
           new_json_data == json_loads(output)
           changed == exists /\ ~ PyEq(json_load(store), new_json_data)
       IN  /\ store' = IF ~ exists THEN File(json_dumps(String(output)))
                       ELSE IF changed THEN File(json_dumps(new_json_data))
                       ELSE store
           /\ report' = [report EXCEPT !.wrote = ~ exists \/ changed,
                                       !.prior = store.kind,
                                       !.snapshot = new_json_data]
           /\ pc' = IF changed /\ args.chat THEN "notify" ELSE "notified"
    /\ UNCHANGED <<args, remote, api_data, park_information, info_by_park_id,
                   dates, merged, run>>

\* lines 478-482 and 338-350: the message is posted; an HTTP error is raised
\* again and ends main
send_telegram_message ==
    /\ pc = "notify"
    /\ \E delivered \in BOOLEAN :
        /\ report' = [report EXCEPT !.sent = IF delivered THEN "delivered" ELSE "failed"]
        /\ pc' = IF delivered THEN "notified" ELSE "raised"
    /\ UNCHANGED <<args, remote, api_data, park_information, info_by_park_id,
                   dates, merged, store, run>>

\* lines 491-576: main returns before the booking loop: nothing available,
\* credentials missing, Selenium not reachable, or the login failed
return_from_main ==
    /\ pc = "notified"
    /\ pc' = "done"
    /\ UNCHANGED <<args, remote, api_data, park_information, info_by_park_id,
                   dates, merged, store, report, run>>

\* lines 491-576: something is available, the credentials are given, the
\* driver is up and logged in
start_booking ==
    /\ pc = "notified"
    /\ has_availabilities(info_by_park_id)
    /\ args.creds
    /\ pc' = "book"
    /\ UNCHANGED <<args, remote, api_data, park_information, info_by_park_id,
                   dates, merged, store, report, run>>

\* lines 582-692: the next campsite of the loop; its ranges are merged.
\* dates[site] is the list as it was handed over, merged[site] the list
\* returned, and the dicts of the park's result are the ones the merge wrote to
add_to_cart ==
    /\ pc = "book"
    /\ \E site \in DOMAIN info_by_park_id["A"].sites :
        /\ site \notin DOMAIN merged
        /\ LET given == info_by_park_id["A"].sites[site]
           IN  /\ dates' = (site :> given) @@ dates
               /\ merged' = (site :> merge_consecutive_dates(given)) @@ merged
               /\ info_by_park_id' =
                    [info_by_park_id EXCEPT !["A"].sites[site] = dates_after_merge(given)]
    /\ UNCHANGED <<args, remote, pc, api_data, park_information, store, report, run>>

\* lines 693-703: the loop is over or a WebDriver call raised; the driver is
\* closed and main returns
driver_quit ==
    /\ pc = "book"
    /\ pc' = "done"
    /\ UNCHANGED <<args, remote, api_data, park_information, info_by_park_id,
                   dates, merged, store, report, run>>

\* the payloads of the runs of main: campsite 100, its available days
\* among the nights of the window (from args.start_date to the day before
\* args.end_date) in any order
MainRemotes ==
    Remotes([s \in {"100"} |-> {"STANDARD"}], 32..(LastDay - 1), {"Available"},
            MaxDates)

\* the script is started again with the same arguments; the API may
\* answer differently, campsites.json is what the last run left
next_run ==
    /\ pc \in {"done", "raised"}
    /\ run < MaxRuns
    /\ run' = run + 1
    /\ remote' \in MainRemotes
    /\ pc' = "fetch"
    /\ api_data' = <<>>
    /\ park_information' = <<>>
    /\ info_by_park_id' = <<>>
    /\ dates' = <<>>
    /\ merged' = <<>>
    /\ report' = [NoReport EXCEPT !.previous = report.snapshot]
    /\ UNCHANGED <<args, store>>

\* what check_park gives for a state of the API
InfoFor(a, r) ==
    LET ms == months(a.start_date, a.end_date)
        information == Collapse([k \in 1..Len(ms) |-> r[ms[k]]], a.campsite_type,
                                a.campsite_ids, a.excluded_site_ids)
    IN  [p \in {"A"} |->
            [name |-> get_park_name(p)] @@
            get_num_available_sites(information, a.start_date, a.end_date,
                                    a.nights, a.weekends_only)]

\* main from its start: February, one or two nights, with and without a
\* notification channel and booking credentials; campsites.json is absent,
\* is not JSON, or is the snapshot of an earlier run
Init ==
    /\ args \in [start_date : {32}, end_date : {LastDay},
                 nights : {<<1>>, <<2>>}, weekends_only : {FALSE},
                 campsite_type : {<<>>}, campsite_ids : {{}},
                 excluded_site_ids : {{}}, chat : BOOLEAN, creds : BOOLEAN]
    /\ remote \in MainRemotes
    /\ store \in {Absent, Malformed}
                 \cup {File(json_dumps(json_loads(
                            generate_json_output(InfoFor(args, r)).output))) :
                       r \in MainRemotes}
    /\ run = 1
    /\ Fresh

Next ==
    \/ get_availability
    \/ get_park_information
    \/ check_park
    \/ compare_snapshot
    \/ send_telegram_message
    \/ return_from_main
    \/ start_booking
    \/ add_to_cart
    \/ driver_quit
    \/ next_run

Spec == Init /\ [][Next]_vars

\* merge_consecutive_dates on its own: the booking loop over a park result
\* whose campsite 100 has any list of at most MaxRanges ranges
MergeDays == FirstDay..(LastDay - 2)

RangeLists ==
    LET ranges == {[start |-> format_date(a, INPUT_DATE_FORMAT),
                    end |-> format_date(b, INPUT_DATE_FORMAT)] :
                        <<a, b>> \in {ab \in MergeDays \X MergeDays : ab[1] <= ab[2]}}
    IN  UNION {[1..n -> ranges] : n \in 0..MaxRanges}

InitMerge ==
    /\ args \in [start_date : {FirstDay}, end_date : {LastDay},
                 nights : {<<>>}, weekends_only : {FALSE},
                 campsite_type : {<<>>}, campsite_ids : {{}},
                 excluded_site_ids : {{}}, chat : {FALSE}, creds : {TRUE}]
    /\ remote \in Remotes([s \in {"100"} |-> {"STANDARD"}], {}, {"Available"}, 0)
    /\ pc = "book"
    /\ api_data = <<>>
    /\ park_information = <<>>
    /\ \E list \in RangeLists :
        info_by_park_id =
            [p \in {"A"} |-> [name |-> get_park_name(p), current |-> 1,
                              maximum |-> 1, sites |-> (100 :> list)]]
    /\ dates = <<>>
    /\ merged = <<>>
    /\ store = Absent
    /\ report = NoReport
    /\ run = 1

NextMerge == add_to_cart \/ driver_quit

SpecMerge == InitMerge /\ [][NextMerge]_vars

\* lines 450-457 of main: the JSON document and the report of the parks
\* checked, and the flag each generator returns
generate_output ==
    /\ pc = "checked"
    /\ LET json == generate_json_output(info_by_park_id)
           human == generate_human_output(info_by_park_id, args.start_date,
                                          args.end_date, args.show_campsite_info)
       IN  report' = [output |-> json.output,
                      json_has_availabilities |-> json.has_availabilities,
                      msg |-> human.msg,
                      has_availabilities |-> human.has_availabilities] @@ report
    /\ pc' = "reported"
    /\ UNCHANGED <<args, remote, api_data, park_information, info_by_park_id,
                   dates, merged, store, run>>

\* the reports on their own: park A with two campsites, park B with one, or
\* both, each with any February availability; remote holds the API content
\* of every park and info_by_park_id what check_park gives for it
ReportRemotesA ==
    Remotes([s \in SiteKeys |-> {"STANDARD"}], 32..(32 + AggFebDays), {"Available"}, MaxDates)

ReportRemotesB ==
    Remotes([s \in {"100"} |-> {"STANDARD"}], 32..(32 + AggFebDays), {"Available"}, MaxDates)

InitReport ==
    /\ args \in [start_date : {32}, end_date : {LastDay},
                 nights : {<<1>>}, weekends_only : {FALSE},
                 campsite_type : {<<>>}, campsite_ids : {{}},
                 excluded_site_ids : {{}}, chat : {FALSE}, creds : {FALSE},
                 show_campsite_info : BOOLEAN]
    /\ \E parks \in (SUBSET {"A", "B"}) \ {{}} :
        \E a \in ReportRemotesA, b \in ReportRemotesB :
            remote = [p \in parks |-> IF p = "A" THEN a ELSE b]
    /\ pc = "checked"
    /\ api_data = <<>>
    /\ park_information = <<>>
    /\ info_by_park_id = [p \in DOMAIN remote |-> InfoFor(args, remote[p])["A"]]
    /\ dates = <<>>
    /\ merged = <<>>
    /\ store = Absent
    /\ report = NoReport
    /\ run = 1

NextReport == generate_output

SpecReport == InitReport /\ [][NextReport]_vars

----------------------------------------------------------------------------
(* Claims about the detector (SpecDet) and the aggregator (SpecAgg).       *)

Elems(seq) == {seq[i] : i \in 1..Len(seq)}

\* the ranges the run emitted for a campsite: none when it has no entry
Emitted(s) ==
    IF int(s) \in DOMAIN info_by_park_id["A"].sites
    THEN info_by_park_id["A"].sites[int(s)]
    ELSE <<>>

StartOf(rg) == strptime(rg.start, INPUT_DATE_FORMAT)
EndOf(rg) == strptime(rg.end, INPUT_DATE_FORMAT)

\* the days of the window on which campsite s is available in the map
\* (weekend nights only when asked): what the detector is given, as a set
DesiredDays(s) ==
    {d \in Days :
        /\ format_date(d, ISO_DATE_FORMAT_RESPONSE) \in Elems(park_information[s])
        /\ args.start_date <= d /\ d < args.end_date
        /\ args.weekends_only => weekday(d) \in {4, 5}}

\* the stay length the claims speak of: the one asked for when it lies in
\* 1..totalWindowDays, the whole window otherwise
StayLength ==
    LET total == args.end_date - args.start_date
    IN  IF args.nights # <<>> /\ args.nights[1] >= 1 /\ args.nights[1] <= total
        THEN args.nights[1] ELSE total

\* the maximal runs <<a, b>> of calendar-consecutive days of a set
MaximalRuns(D) ==
    {<<a, b>> \in D \X D :
        /\ a <= b
        /\ \A d \in a..b : d \in D
        /\ (a - 1) \notin D /\ (b + 1) \notin D}

\* the ranges of every start offset of a run, ascending
StaysOfRun(a, b, n) ==
    [k \in 1..((b - a + 1) - n + 1) |->
        [start |-> format_date(a + k - 1, INPUT_DATE_FORMAT),
         end |-> format_date(a + k - 1 + n, INPUT_DATE_FORMAT)]]

\* C1: for every maximal run of L consecutive available days of the window
\* and a stay of nights <= L, the detector emits exactly the L - nights + 1
\* ranges of the run, by ascending start, each ending nights days after its
\* start; a run shorter than nights emits nothing.
C1_EveryStartOfEveryRun ==
    pc = "checked" =>
        \A s \in DOMAIN park_information :
            \A ab \in MaximalRuns(DesiredDays(s)) :
                LET ofRun == SelectSeq(Emitted(s),
                                 LAMBDA rg : StartOf(rg) \in ab[1]..ab[2])
                IN  IF StayLength >= 1 /\ StayLength <= ab[2] - ab[1] + 1
                    THEN ofRun = StaysOfRun(ab[1], ab[2], StayLength)
                    ELSE ofRun = <<>>

\* C2: every night of every emitted range is a day on which the campsite is
\* available in the map, lies in [start_date, end_date), and is a Friday or
\* a Saturday when weekends_only is set.
C2_NightsAvailableInWindow ==
    pc = "checked" =>
        \A s \in DOMAIN park_information :
            \A rg \in Elems(Emitted(s)) :
                \A d \in StartOf(rg)..(EndOf(rg) - 1) :
                    /\ format_date(d, ISO_DATE_FORMAT_RESPONSE)
                            \in Elems(park_information[s])
                    /\ args.start_date <= d /\ d < args.end_date
                    /\ args.weekends_only => weekday(d) \in {4, 5}

\* a weekend-only run that emitted a two-night stay while the campsite is
\* also available on a day outside the weekend
C2_Witness ==
    /\ pc = "checked"
    /\ args.weekends_only
    /\ \E rg \in Elems(Emitted("100")) : EndOf(rg) - StartOf(rg) = 2
    /\ \E d \in Days :
            /\ format_date(d, ISO_DATE_FORMAT_RESPONSE) \in Elems(park_information["100"])
            /\ weekday(d) \notin {4, 5}

\* the lists that hold the same dates as a list: its permutations, and the
\* lists that repeat one of its dates
SameDates(list) ==
    UNION {{q \in [1..n -> Elems(list)] : Elems(q) = Elems(list)} :
           n \in 0..(Len(list) + 1)}

\* C3: the ranges emitted for a campsite depend only on the set of its
\* available dates: a list of the same dates in another order, or with a
\* date repeated, gives the same sequence of ranges.
C3_OrderAndRepeatsIrrelevant ==
    pc = "checked" =>
        \A s \in DOMAIN park_information :
            \A q \in SameDates(park_information[s]) :
                SiteRanges(q, WindowDates(args.start_date, args.end_date,
                                          args.weekends_only), StayLength)
                    = Emitted(s)

\* the payload entries of campsite s that qualify under the filters
Qualifies(month_data, s, d) ==
    /\ s \in DOMAIN month_data
    /\ \E i \in 1..Len(month_data[s].availabilities) :
            /\ month_data[s].availabilities[i].date
                    = format_date(d, ISO_DATE_FORMAT_RESPONSE)
            /\ month_data[s].availabilities[i].status = "Available"
    /\ s \notin args.excluded_site_ids
    /\ args.campsite_type = <<>> \/ args.campsite_type[1] = month_data[s].campsite_type
    /\ args.campsite_ids = {} \/ month_data[s].campsite_id \in args.campsite_ids

Collapsed == pc \in {"count", "checked"}

\* C4: a date is in a campsite's collection of the map exactly when some
\* payload lists it for the campsite as "Available", the campsite is not
\* excluded, the type filter is unset or is the campsite's type, and the
\* allow-list is empty or holds the campsite's id; an excluded campsite is
\* no key of the map.
C4_DateInMapIffQualifies ==
    Collapsed =>
        /\ \A s \in SiteKeys : \A d \in Days :
                (/\ s \in DOMAIN park_information
                 /\ format_date(d, ISO_DATE_FORMAT_RESPONSE)
                        \in Elems(park_information[s]))
                <=> \E k \in 1..Len(api_data) : Qualifies(api_data[k], s, d)
        /\ \A s \in args.excluded_site_ids : s \notin DOMAIN park_information

\* campsite 100 is excluded though a payload lists it as available under
\* the other filters, and campsite 200 has a date in the map
C4_Witness ==
    /\ Collapsed
    /\ "100" \in args.excluded_site_ids
    /\ \E k \in 1..Len(api_data) : \E i \in 1..Len(api_data[k]["100"].availabilities) :
            /\ api_data[k]["100"].availabilities[i].status = "Available"
            /\ args.campsite_type = <<>>
            /\ args.campsite_ids = {}
    /\ "200" \in DOMAIN park_information
    /\ park_information["200"] # <<>>

\* C5: every campsite that is a key of the map has at least one qualifying
\* date, so the total of sites checked counts only such campsites.
C5_NoSiteWithoutDates ==
    Collapsed =>
        \A s \in DOMAIN park_information : park_information[s] # <<>>

\* C6: a stay length that is unset or outside 1..totalWindowDays is replaced
\* by totalWindowDays, one inside is used as given, and every emitted range
\* spans exactly that many days.
C6_EffectiveNights ==
    pc = "checked" =>
        \A s \in DOMAIN park_information :
            \A rg \in Elems(Emitted(s)) : EndOf(rg) - StartOf(rg) = StayLength

\* a stay length above the window was asked for and a range was emitted
C6_Witness ==
    /\ pc = "checked"
    /\ args.nights # <<>>
    /\ args.nights[1] > args.end_date - args.start_date
    /\ Emitted("100") # <<>>

----------------------------------------------------------------------------
(* Claims about merge_consecutive_dates (SpecMerge).                       *)

\* the lists that hold the dicts of a list in another order
Permuted(list) ==
    {[k \in 1..Len(list) |-> list[f[k]]] :
        f \in {g \in [1..Len(list) -> 1..Len(list)] :
                  \A i, j \in 1..Len(list) : i # j => g[i] # g[j]}}

\* C7: the list returned is ordered by ascending start and each range
\* starts more than one day after the end of the range before it; an empty
\* list gives an empty list.
C7_DisjointNonAdjacent ==
    \A site \in DOMAIN merged :
        /\ \A k \in 1..(Len(merged[site]) - 1) :
            /\ StartOf(merged[site][k]) < StartOf(merged[site][k + 1])
            /\ StartOf(merged[site][k + 1]) > EndOf(merged[site][k]) + 1
        /\ dates[site] = <<>> => merged[site] = <<>>

\* three ranges given out of start order were merged into two
C7_Witness ==
    /\ 100 \in DOMAIN merged
    /\ Len(dates[100]) = 3
    /\ StartOf(dates[100][1]) > StartOf(dates[100][2])
    /\ Len(merged[100]) = 2

\* C8: merging the list returned gives it back, and merging the given
\* ranges in any other order gives the same list of (start, end).
C8_IdempotentOrderIndependent ==
    \A site \in DOMAIN merged :
        /\ merge_consecutive_dates(merged[site]) = merged[site]
        /\ \A other \in Permuted(dates[site]) :
                merge_consecutive_dates(other) = merged[site]

\* two of three given ranges share their start and differ in their end, the
\* longer one first, and the merge joined ranges
C8_Witness ==
    /\ 100 \in DOMAIN merged
    /\ Len(dates[100]) = 3
    /\ StartOf(dates[100][1]) = StartOf(dates[100][2])
    /\ EndOf(dates[100][1]) > EndOf(dates[100][2])
    /\ Len(merged[100]) < 3

----------------------------------------------------------------------------
(* Claims about the snapshot store of main (Spec).                         *)

Compared == pc \in {"notify", "notified", "book", "done", "raised"}

\* C9: a run that computes the snapshot the run before it computed does not
\* rewrite campsites.json and sends no notification, whatever the file held
\* before the first of the two runs.
C9_EqualSnapshotNoChange ==
    (run >= 2 /\ Compared /\ PyEq(report.previous, report.snapshot)) =>
        (~ report.wrote /\ report.sent = "no")

\* C10: a run that finds campsites.json absent or malformed ends normally
\* with the new snapshot written to the file, and has sent a notification
\* exactly when something is available and a channel is configured.
C10_AbsentLikeMalformed ==
    (pc = "done" /\ report.prior \in {"absent", "malformed"}) =>
        /\ report.wrote
        /\ PyEq(json_load(store), report.snapshot)
        /\ report.sent # "no" <=> (has_availabilities(info_by_park_id) /\ args.chat)

\* C11: when the delivery of the notification fails, the new snapshot is
\* in campsites.json and stays there, and main goes on as after a delivery:
\* it does not end with the error.
C11_DeliveryFailureHarmless ==
    report.sent = "failed" =>
        /\ report.wrote
        /\ PyEq(json_load(store), report.snapshot)
        /\ pc # "raised"

\* C12: when start_date is after end_date the check of the park is rejected
\* before any fetch: no month is fetched and the park gets no result.
C12_InvalidWindowRejected ==
    args.start_date > args.end_date =>
        /\ api_data = <<>>
        /\ DOMAIN info_by_park_id = {}

\* a park has an available campsite: its result lists dates for a campsite
HasAvailableSite(p) == DOMAIN info_by_park_id[p].sites # {}

\* C13: the report starts with "There are no campsites available :(" exactly
\* when no park has an available campsite, and with the headline of the
\* window otherwise; the JSON document has a key for exactly the parks that
\* have an available campsite; the two generators return the same flag.
C13_ReportsAgree ==
    pc = "reported" =>
        LET none == \A p \in DOMAIN info_by_park_id : ~ HasAvailableSite(p)
            document == json_loads(report.output)
        IN  /\ (report.msg[1].format = "There are no campsites available :(") <=> none
            /\ ~ none =>
                 /\ report.msg[1].format =
                        "there are campsites available from {start} to {end}!!!"
                 /\ report.msg[1].fields.start.ord = args.start_date
                 /\ report.msg[1].fields.end.ord = args.end_date
            /\ document.type = "object"
            /\ \A p \in DOMAIN info_by_park_id :
                 p \in DOMAIN document.members <=> HasAvailableSite(p)
            /\ report.json_has_availabilities = report.has_availabilities
            /\ report.has_availabilities = ~ none

\* both parks are checked, one has an available campsite and the other has
\* none, and the two reports are made
C13_Witness ==
    /\ pc = "reported"
    /\ DOMAIN info_by_park_id = {"A", "B"}
    /\ HasAvailableSite("A")
    /\ ~ HasAvailableSite("B")
    /\ info_by_park_id["B"].maximum > 0
    /\ Len(report.msg) > 3

\* C14: the result of a park is not changed after check_park returned it:
\* when the booking step has merged the ranges of a campsite, the list of
\* that campsite in the park's result is still the list that was given to
\* merge_consecutive_dates.
C14_ParkResultUnchangedByMerge ==
    \A site \in DOMAIN dates :
        /\ site \in DOMAIN info_by_park_id["A"].sites
        /\ info_by_park_id["A"].sites[site] = dates[site]

\* the nights of a range: from its start to the day before its end
Nights(range) == {d \in Days : range.start.ord <= d /\ d < range.end.ord}

\* C15: every night of a range that the booking step gets from
\* merge_consecutive_dates is a night of one of the ranges the detector found
\* for that campsite, so the merged ranges cover available nights only.
C15_MergedNightsAvailable ==
    \A site \in DOMAIN merged :
        \A i \in 1..Len(merged[site]) :
            \A d \in Nights(merged[site][i]) :
                \E j \in 1..Len(dates[site]) : d \in Nights(dates[site][j])

====
